---- MODULE Spec2Model ----
(***************************************************************************)
(* Model of PageCurlRenderer (page_curl_renderer.h / page_curl_renderer.cpp)*)
(* and of its JNI entry points (page_curl_jni.cpp).                        *)
(*                                                                         *)
(* The machine state is the renderer object (`this`), the part of the GL   *)
(* context the renderer touches (`gl`) and the list of GL calls and pass   *)
(* markers issued by the operation that ran last (`trace`).  `mesh` is a   *)
(* run of the mesh builder on its own: the grid size it is given and the  *)
(* vertex and index lists it has filled.                                   *)
(*                                                                         *)
(* Lengths in page space are fixed-point integers: UNIT stands for 1.0.    *)
(* A GL object counts as live from its glGen* / glCreate* call until the   *)
(* renderer passes it to glDelete*.                                        *)
(***************************************************************************)
EXTENDS Integers, Sequences, FiniteSets, TLC

VARIABLES this, gl, trace, lastOp, alive, mesh

vars == <<this, gl, trace, lastOp, alive, mesh>>

-----------------------------------------------------------------------------
(* Program constants                                                       *)

TEX_CURRENT == 0
TEX_NEXT == 1
TEX_PREV == 2
MESH_COLS == 64
MESH_ROWS == 32

\* 1.0 in page space; a multiple of MESH_COLS and MESH_ROWS, so that every
\* mesh coordinate c/cols, r/rows is exact, and of 1000, so that 0.065,
\* 0.04 and 0.03 are exact.
UNIT == 64 * 1000

\* static constexpr float CURL_RADIUS = 0.065f
CURL_RADIUS == (65 * UNIT) \div 1000

\* darken arguments of the two curl passes, in hundredths (0.15f, 0.35f)
DARKEN_BACK == 15
DARKEN_FRONT == 35

\* const float shadowW = 0.04f / 0.03f
REVEAL_SHADOW_W == (4 * UNIT) \div 100
FLAT_SHADOW_W == (3 * UNIT) \div 100

-----------------------------------------------------------------------------
(* Bounds of the model                                                     *)

\* onSurfaceCreated runs only while the context holds at most this many
\* live objects: on a context that is empty but for leaked objects
MaxLiveObjects == 1

\* the jint slot values tried by nativeSetBitmap are -1 .. MaxSlotArg
MaxSlotArg == 3

\* the mesh builder is run for 1 .. MaxMeshDim columns and rows
MaxMeshDim == 6

-----------------------------------------------------------------------------
(* Inputs                                                                  *)

Slots == {TEX_CURRENT, TEX_NEXT, TEX_PREV}

SlotArgs == (-1) .. MaxSlotArg

\* An android.graphics.Bitmap as withBitmap sees it; id names the pixels.
NoImage == [id |-> 0, w |-> 0, h |-> 0]

Bitmaps ==
    { [id |-> 1, w |-> 2, h |-> 2, format |-> "RGBA_8888"],
      [id |-> 2, w |-> 2, h |-> 2, format |-> "RGB_565"] }

FoldXs == {0, UNIT \div 2, UNIT}

FoldSlopes == {0, UNIT \div 5}

SurfaceSizes == {<<480, 800>>}

\* Outcome of one onSurfaceCreated: which of the four compiles and two links
\* succeed (curl vertex, curl fragment, curl link, flat vertex, flat
\* fragment, flat link).
AllBuilt ==
    [cv |-> TRUE, cf |-> TRUE, cl |-> TRUE, fv |-> TRUE, ff |-> TRUE, fl |-> TRUE]

\* everything builds; the curl fragment shader does not compile; the flat
\* program does not link
BuildOutcomes ==
    { AllBuilt,
      [AllBuilt EXCEPT !.cf = FALSE],
      [AllBuilt EXCEPT !.fl = FALSE] }

-----------------------------------------------------------------------------
(* The GL context, as far as the renderer uses it                          *)

Min(a, b) == IF a < b THEN a ELSE b

Clamp(x, lo, hi) == IF x < lo THEN lo ELSE IF x > hi THEN hi ELSE x

GLCall(name, args) == [ev |-> "gl", call |-> name, args |-> args]

Emit(m, e) == [m EXCEPT !.trace = Append(@, e)]

\* the k-th smallest name (k >= 1) that is positive and not in `used`
NthFree(used, k) ==
    LET cand == (1 .. (Cardinality(used) + k)) \ used
    IN  CHOOSE x \in cand : Cardinality({y \in cand : y < x}) = k - 1

\* the image a texture name holds; a name without storage holds NoImage
ImageOf(g, t) == IF t \in DOMAIN g.image THEN g.image[t] ELSE NoImage

\* shader and program objects share one name space
glCreateShader(m) ==
    LET s == NthFree(m.gl.shaders \cup m.gl.programs, 1)
    IN  [m |-> Emit([m EXCEPT !.gl.shaders = @ \cup {s}],
                    GLCall("glCreateShader", <<s>>)),
         ret |-> s]

glDeleteShader(m, s) ==
    Emit([m EXCEPT !.gl.shaders = @ \ {s}], GLCall("glDeleteShader", <<s>>))

glCreateProgram(m) ==
    LET p == NthFree(m.gl.shaders \cup m.gl.programs, 1)
    IN  [m |-> Emit([m EXCEPT !.gl.programs = @ \cup {p}],
                    GLCall("glCreateProgram", <<p>>)),
         ret |-> p]

\* the active uniforms of a linked program, in location order
ActiveUniforms(kind) ==
    IF kind = "curl"
    THEN <<"uFoldX", "uRadius", "uBackFace", "uDarken", "uTex">>
    ELSE <<"uFlatTex">>

\* glLinkProgram of the shaders of `kind` ("curl": kCurlVert + kCurlFrag,
\* "flat": kFlatVert + kFlatFrag); a linked program has its uniforms at 0
glLinkProgram(m, p, kind, ok) ==
    Emit(IF ok
         THEN [m EXCEPT !.gl.progInfo =
                   [q \in (DOMAIN @) \cup {p} |->
                       IF q = p
                       THEN [kind |-> kind,
                             uniforms |->
                                 [l \in 0 .. Len(ActiveUniforms(kind)) - 1 |-> 0]]
                       ELSE @[q]]]
         ELSE m,
         GLCall("glLinkProgram", <<p>>))

\* -1 when the program has no active uniform of that name
glGetUniformLocation(m, p, name) ==
    LET us == ActiveUniforms(m.gl.progInfo[p].kind)
    IN  IF \E l \in 1 .. Len(us) : us[l] = name
        THEN (CHOOSE l \in 1 .. Len(us) : us[l] = name) - 1
        ELSE -1

\* glUniform1f / glUniform1i on the current program; location -1 and a
\* missing current program leave every uniform as it is
glUniform(m, loc, val) ==
    LET p == m.gl.curProgram
    IN  Emit(IF p \in DOMAIN m.gl.progInfo
                /\ loc \in DOMAIN m.gl.progInfo[p].uniforms
             THEN [m EXCEPT !.gl.progInfo[p].uniforms[loc] = val]
             ELSE m,
             GLCall("glUniform", <<loc, val>>))

glDeleteProgram(m, p) ==
    Emit([m EXCEPT !.gl.programs = @ \ {p},
                   !.gl.progInfo = [q \in (DOMAIN @) \ {p} |-> @[q]]],
         GLCall("glDeleteProgram", <<p>>))

glUseProgram(m, p) ==
    Emit([m EXCEPT !.gl.curProgram = p], GLCall("glUseProgram", <<p>>))

glGenBuffer(m) ==
    LET b == NthFree(m.gl.buffers, 1)
    IN  [m |-> Emit([m EXCEPT !.gl.buffers = @ \cup {b}],
                    GLCall("glGenBuffers", <<b>>)),
         ret |-> b]

\* glBufferData: the buffer then holds `n` elements
glBufferData(m, b, n) ==
    Emit([m EXCEPT !.gl.bufData =
              [u \in (DOMAIN @) \cup {b} |-> IF u = b THEN n ELSE @[u]]],
         GLCall("glBufferData", <<b, n>>))

glDeleteBuffer(m, b) ==
    Emit([m EXCEPT !.gl.buffers = @ \ {b},
                   !.gl.bufData = [u \in (DOMAIN @) \ {b} |-> @[u]]],
         GLCall("glDeleteBuffers", <<b>>))

glGenTexture(m) ==
    LET t == NthFree(m.gl.textures, 1)
    IN  [m |-> Emit([m EXCEPT !.gl.textures = @ \cup {t}],
                    GLCall("glGenTextures", <<t>>)),
         ret |-> t]

glBindTexture(m, t) ==
    Emit([m EXCEPT !.gl.boundTex = t], GLCall("glBindTexture", <<t>>))

\* glTexImage2D on the texture bound to GL_TEXTURE_2D. With 0 bound the
\* upload goes to the context's default texture, which is no object of the
\* renderer: the call is recorded and `image` keeps the named textures only.
glTexImage2D(m, img) ==
    LET t == m.gl.boundTex
    IN  Emit(IF t = 0
             THEN m
             ELSE [m EXCEPT !.gl.image =
                      [u \in (DOMAIN @) \cup {t} |-> IF u = t THEN img ELSE @[u]]],
             GLCall("glTexImage2D", <<t, img.id, img.w, img.h>>))

\* deleting the bound texture rebinds 0
glDeleteTexture(m, t) ==
    Emit([m EXCEPT !.gl.textures = @ \ {t},
                   !.gl.image = [u \in (DOMAIN @) \ {t} |-> @[u]],
                   !.gl.boundTex = IF @ = t THEN 0 ELSE @],
         GLCall("glDeleteTextures", <<t>>))

glEnableCull(m) ==
    Emit([m EXCEPT !.gl.cullEnabled = TRUE], GLCall("glEnable(GL_CULL_FACE)", <<>>))

glDisableCull(m) ==
    Emit([m EXCEPT !.gl.cullEnabled = FALSE], GLCall("glDisable(GL_CULL_FACE)", <<>>))

glCullFace(m, mode) ==
    Emit([m EXCEPT !.gl.cullMode = mode], GLCall("glCullFace", <<>>))

\* "off", or the face that is culled
CullState(g) == IF g.cullEnabled THEN g.cullMode ELSE "off"

-----------------------------------------------------------------------------
(* Construction                                                            *)

\* the member initialisers of page_curl_renderer.h
NewRenderer ==
    [mProgram |-> 0, mFlatProgram |-> 0,
     mTextures |-> [i \in Slots |-> 0],
     mVBO |-> 0, mEBO |-> 0, mIndexCount |-> 0,
     mSurfaceW |-> 0, mSurfaceH |-> 0,
     mUFoldX |-> -1, mUFoldSlope |-> -1, mURadius |-> -1,
     mUBackFace |-> -1, mUDarken |-> -1, mUTex |-> -1, mUFlatTex |-> -1,
     mRevealShadowTex |-> 0, mFlatShadowTex |-> 0]

\* a GL context in which nothing has been created
NewContext ==
    [shaders |-> {}, programs |-> {}, buffers |-> {}, textures |-> {},
     image |-> [u \in {} |-> NoImage],
     bufData |-> [b \in {} |-> 0],
     progInfo |-> [q \in {} |-> 0],
     curProgram |-> 0, boundTex |-> 0, arrayBuf |-> 0, elemBuf |-> 0,
     cullEnabled |-> FALSE, cullMode |-> "back",
     blend |-> FALSE, viewport |-> <<0, 0>>]

\* the machine an operation starts from: its trace starts empty
Machine == [this |-> this, gl |-> gl, trace |-> <<>>]

-----------------------------------------------------------------------------
(* Mesh                                                                    *)

\* the vertex written at verts[idx], idx = r * (cols + 1) + c, 0-based
MeshVertex(cols, rows, r, c) ==
    [x |-> (c * UNIT) \div cols, y |-> (r * UNIT) \div rows,
     u |-> (c * UNIT) \div cols, v |-> (r * UNIT) \div rows]

\* verts when the row loop stops at r < rows
MeshVerticesOpenRows(cols, rows) ==
    [k \in 1 .. (cols + 1) * rows |->
        MeshVertex(cols, rows, (k - 1) \div (cols + 1), (k - 1) % (cols + 1))]

\* verts, in the order the two loops fill it (row-major)
MeshVertices(cols, rows) ==
    [k \in 1 .. (cols + 1) * (rows + 1) |->
        MeshVertex(cols, rows, (k - 1) \div (cols + 1), (k - 1) % (cols + 1))]

\* the six indices pushed for cell (r, c): tl bl tr, tr bl br (uint16_t)
CellIndices(cols, r, c) ==
    LET tl == (r * (cols + 1) + c) % 65536
        tr == (r * (cols + 1) + c + 1) % 65536
        bl == ((r + 1) * (cols + 1) + c) % 65536
        br == ((r + 1) * (cols + 1) + c + 1) % 65536
    IN  <<tl, bl, tr, tr, bl, br>>

\* indices, in push_back order
MeshIndices(cols, rows) ==
    [k \in 1 .. cols * rows * 6 |->
        CellIndices(cols, ((k - 1) \div 6) \div cols, ((k - 1) \div 6) % cols)
            [((k - 1) % 6) + 1]]

\* the mesh of the renderer, evaluated once
PageVertices == MeshVertices(MESH_COLS, MESH_ROWS)

PageIndexCount == Len(MeshIndices(MESH_COLS, MESH_ROWS))

\* glGenBuffers(1, &mVBO) and the upload of verts; g is what glGenBuffer
\* returned
StoreVBO(g) ==
    glBufferData([g.m EXCEPT !.this.mVBO = g.ret], g.ret, Len(PageVertices))

\* glGenBuffers(1, &mEBO) and the upload of indices
StoreEBO(g) ==
    glBufferData([g.m EXCEPT !.this.mEBO = g.ret], g.ret, PageIndexCount)

\* the vectors of buildMesh before its loops run, for a grid of cols x rows
NewMesh(cols, rows) ==
    [cols |-> cols, rows |-> rows, built |-> FALSE,
     verts |-> <<>>, indices |-> <<>>, indexCount |-> 0]

\* the vectors of buildMesh after its loops, and indices.size()
BuiltMesh(cols, rows) ==
    [cols |-> cols, rows |-> rows, built |-> TRUE,
     verts |-> MeshVertices(cols, rows),
     indices |-> MeshIndices(cols, rows),
     indexCount |-> Len(MeshIndices(cols, rows))]

buildMesh(m) ==
    StoreEBO(glGenBuffer(
        StoreVBO(glGenBuffer([m EXCEPT !.this.mIndexCount = PageIndexCount]))))

-----------------------------------------------------------------------------
(* Shader programs                                                         *)

\* compileShader: `ok` is GL_COMPILE_STATUS
compileShader(m, ok) ==
    LET g == glCreateShader(m)
    IN  IF ~ok
        THEN [m |-> glDeleteShader(g.m, g.ret), ret |-> 0]
        ELSE g

\* createProgram of the sources of `kind`: vok, fok are the two compile
\* results, lok GL_LINK_STATUS
\* GLuint fs = compileShader(GL_FRAGMENT_SHADER, fragSrc), with vs being
\* what compileShader returned for the vertex shader
CompileFragment(vs, fok) ==
    LET fs == compileShader(vs.m, fok)
    IN  [m |-> fs.m, vs |-> vs.ret, fs |-> fs.ret]

\* glLinkProgram and, when the link failed, glDeleteProgram
LinkOrDelete(m, prog, kind, lok) ==
    IF ~lok
    THEN glDeleteProgram(glLinkProgram(m, prog, kind, lok), prog)
    ELSE glLinkProgram(m, prog, kind, lok)

\* createProgram from glCreateProgram on: p is what glCreateProgram
\* returned
LinkProgram(p, vs, fs, kind, lok) ==
    [m |-> glDeleteShader(
               glDeleteShader(LinkOrDelete(p.m, p.ret, kind, lok), vs), fs),
     ret |-> IF ~lok THEN 0 ELSE p.ret]

\* createProgram from `if (!vs || !fs) return 0;` on
LinkCompiled(c, kind, lok) ==
    IF c.vs = 0 \/ c.fs = 0
    THEN [m |-> c.m, ret |-> 0]
    ELSE LinkProgram(glCreateProgram(c.m), c.vs, c.fs, kind, lok)

createProgram(m, kind, vok, fok, lok) ==
    LinkCompiled(CompileFragment(compileShader(m, vok), fok), kind, lok)

-----------------------------------------------------------------------------
(* Lifecycle                                                               *)

\* glGenTextures(3, mTextures) and the loop that binds each name
\* the name glGenTextures writes to mTextures[i]; g is what glGenTexture
\* returned
StoreTexture(g, i) == [g.m EXCEPT !.this.mTextures[i] = g.ret]

\* the loop that binds each name, and glBindTexture(GL_TEXTURE_2D, 0)
BindPageTextures(m) ==
    glBindTexture(
        glBindTexture(
            glBindTexture(
                glBindTexture(m, m.this.mTextures[0]),
                m.this.mTextures[1]),
            m.this.mTextures[2]),
        0)

GenPageTextures(m) ==
    BindPageTextures(
        StoreTexture(glGenTexture(
            StoreTexture(glGenTexture(
                StoreTexture(glGenTexture(m), 0)), 1)), 2))

\* mProgram = createProgram(kCurlVert, kCurlFrag); if (mProgram) { ... };
\* c is what createProgram returned
StoreCurlProgram(c) ==
    IF c.ret # 0
    THEN [c.m EXCEPT
           !.this.mProgram = c.ret,
           !.this.mUFoldX = glGetUniformLocation(c.m, c.ret, "uFoldX"),
           !.this.mURadius = glGetUniformLocation(c.m, c.ret, "uRadius"),
           !.this.mUBackFace = glGetUniformLocation(c.m, c.ret, "uBackFace"),
           !.this.mUDarken = glGetUniformLocation(c.m, c.ret, "uDarken"),
           !.this.mUTex = glGetUniformLocation(c.m, c.ret, "uTex")]
    ELSE [c.m EXCEPT !.this.mProgram = c.ret]

\* mFlatProgram = createProgram(kFlatVert, kFlatFrag); if (mFlatProgram) ...
StoreFlatProgram(f) ==
    IF f.ret # 0
    THEN [f.m EXCEPT
           !.this.mFlatProgram = f.ret,
           !.this.mUFlatTex = glGetUniformLocation(f.m, f.ret, "uFlatTex")]
    ELSE [f.m EXCEPT !.this.mFlatProgram = f.ret]

onSurfaceCreated(m, o) ==
    buildMesh(GenPageTextures(
        StoreFlatProgram(createProgram(
            StoreCurlProgram(createProgram(
                [m EXCEPT !.gl.blend = TRUE], "curl", o.cv, o.cf, o.cl)),
            "flat", o.fv, o.ff, o.fl))))

onSurfaceChanged(m, width, height) ==
    Emit([m EXCEPT !.this.mSurfaceW = width, !.this.mSurfaceH = height,
                   !.gl.viewport = <<width, height>>],
         GLCall("glViewport", <<0, 0, width, height>>))

\* setTexture that clamps the slot into 0..2 where the code returns
setTextureClamped(m, slot, img) ==
    LET sl == Clamp(slot, 0, 2)
    IN  glBindTexture(
            glTexImage2D(glBindTexture(m, m.this.mTextures[sl]), img), 0)

setTexture(m, slot, img) ==
    IF slot < 0 \/ slot >= 3
    THEN m
    ELSE glBindTexture(
             glTexImage2D(glBindTexture(m, m.this.mTextures[slot]), img), 0)

\* the loop body without the reset of the handle
ReleaseTextureKeepsHandle(m, i) ==
    IF m.this.mTextures[i] # 0
    THEN glDeleteTexture(m, m.this.mTextures[i])
    ELSE m

\* one iteration of the loop over mTextures
ReleaseTexture(m, i) ==
    IF m.this.mTextures[i] # 0
    THEN [glDeleteTexture(m, m.this.mTextures[i])
              EXCEPT !.this.mTextures[i] = 0]
    ELSE m

\* if (mVBO) { glDeleteBuffers(1, &mVBO); mVBO = 0; }
ReleaseVBO(m) ==
    IF m.this.mVBO # 0
    THEN [glDeleteBuffer(m, m.this.mVBO) EXCEPT !.this.mVBO = 0]
    ELSE m

ReleaseEBO(m) ==
    IF m.this.mEBO # 0
    THEN [glDeleteBuffer(m, m.this.mEBO) EXCEPT !.this.mEBO = 0]
    ELSE m

ReleaseProgram(m) ==
    IF m.this.mProgram # 0
    THEN [glDeleteProgram(m, m.this.mProgram) EXCEPT !.this.mProgram = 0]
    ELSE m

ReleaseFlatProgram(m) ==
    IF m.this.mFlatProgram # 0
    THEN [glDeleteProgram(m, m.this.mFlatProgram)
              EXCEPT !.this.mFlatProgram = 0]
    ELSE m

release(m) ==
    ReleaseTexture(ReleaseTexture(ReleaseTexture(
        ReleaseFlatProgram(ReleaseProgram(ReleaseEBO(ReleaseVBO(m)))),
        0), 1), 2)

-----------------------------------------------------------------------------
(* GLSL shaders                                                            *)

\* Angles are in thousandths of a radian and sines and cosines in
\* thousandths; sin and cos are the Taylor polynomials on [0, PI/2],
\* mirrored for [PI/2, PI].
MILLI == 10 * 100

\* const float PI = 3.14159265
PI == 3142

SinLow(x) ==
    LET x2 == (x * x) \div MILLI
        x3 == (x2 * x) \div MILLI
        x5 == (x3 * x2) \div MILLI
        x7 == (x5 * x2) \div MILLI
    IN  x - (x3 \div 6) + (x5 \div 120) - (x7 \div 5040)

CosLow(x) ==
    LET x2 == (x * x) \div MILLI
        x4 == (x2 * x2) \div MILLI
        x6 == (x4 * x2) \div MILLI
        x8 == (x6 * x2) \div MILLI
    IN  MILLI - (x2 \div 2) + (x4 \div 24) - (x6 \div 720) + (x8 \div 40320)

\* for 0 <= theta <= PI
Sin(theta) == IF 2 * theta <= PI THEN SinLow(theta) ELSE SinLow(PI - theta)

Cos(theta) == IF 2 * theta <= PI THEN CosLow(theta) ELSE -CosLow(PI - theta)

\* the value of a uniform of a linked program of `kind`, by name
Uniform(kind, uniforms, name) ==
    LET us == ActiveUniforms(kind)
    IN  uniforms[(CHOOSE l \in 1 .. Len(us) : us[l] = name) - 1]

\* kCurlVert: the x of the fold line that the vertex at height y is compared
\* against (the second operand of dx)
CurlFoldLineX(uniforms, y) == Uniform("curl", uniforms, "uFoldX")

\* dx with its operands exchanged
CurlDxReversed(vtx, uniforms) == CurlFoldLineX(uniforms, vtx.y) - vtx.x

\* kCurlVert: float dx = pos.x - uFoldX
CurlDx(vtx, uniforms) == vtx.x - CurlFoldLineX(uniforms, vtx.y)

\* theta without the clamp to PI
CurlThetaUnclamped(dx, uRadius) == (dx * MILLI) \div uRadius

\* kCurlVert: float theta = min(dx / uRadius, PI)
CurlTheta(dx, uRadius) == Min((dx * MILLI) \div uRadius, PI)

\* kCurlVert, main(): gl_Position (x, y in units of 1/UNIT, z in units of
\* 1/(2 UNIT)), vUV and vShadow (in units of 1/(100 MILLI))
CurlVert(vtx, uniforms) ==
    LET uFoldX == Uniform("curl", uniforms, "uFoldX")
        uRadius == Uniform("curl", uniforms, "uRadius")
        uBackFace == Uniform("curl", uniforms, "uBackFace") # 0
        uDarken == Uniform("curl", uniforms, "uDarken")
        dx == CurlDx(vtx, uniforms)
        theta == CurlTheta(dx, uRadius)
        posx == IF dx > 0
                THEN uFoldX + (uRadius * Sin(theta)) \div MILLI
                ELSE vtx.x
        z == IF dx > 0
             THEN (uRadius * (MILLI - Cos(theta))) \div MILLI
             ELSE 0
        uvx == IF dx > 0 /\ uBackFace
               THEN Clamp(2 * uFoldX - vtx.u, 0, UNIT)
               ELSE vtx.u
    IN  [x |-> posx * 2 - UNIT, y |-> UNIT - vtx.y * 2, z |-> -z,
         u |-> uvx, v |-> vtx.v,
         vShadow |-> IF dx > 0 THEN uDarken * Sin(theta) ELSE 0]

\* kFlatVert, main(); the flat shaders have no vShadow: 0 stands for no
\* darkening
FlatVert(vtx) ==
    [x |-> vtx.x * 2 - UNIT, y |-> UNIT - vtx.y * 2, z |-> 0,
     u |-> vtx.u, v |-> vtx.v, vShadow |-> 0]

\* kCurlFrag: the factor applied to color.rgb, 1.0 - vShadow * 0.45, in
\* units of 1/(10000 MILLI)
CurlFragFactor(vShadow) == 10000 * MILLI - vShadow * 45

\* kFlatFrag leaves the sampled colour as it is
FlatFragFactor == 10000 * MILLI

-----------------------------------------------------------------------------
(* Internal draw helpers                                                   *)

glBindBuffers(m, vbo, ebo) ==
    Emit(Emit([m EXCEPT !.gl.arrayBuf = vbo, !.gl.elemBuf = ebo],
              GLCall("glBindBuffer(GL_ARRAY_BUFFER)", <<vbo>>)),
         GLCall("glBindBuffer(GL_ELEMENT_ARRAY_BUFFER)", <<ebo>>))

bindMeshAttribs(m, vbo, ebo) == glBindBuffers(m, vbo, ebo)

\* what a draw call reads from the context when it is issued
DrawEvent(m, call, count, quad) ==
    [ev |-> "draw", call |-> call, count |-> count, quad |-> quad,
     program |-> m.gl.curProgram,
     kind |-> IF m.gl.curProgram \in DOMAIN m.gl.progInfo
              THEN m.gl.progInfo[m.gl.curProgram].kind ELSE "none",
     uniforms |-> IF m.gl.curProgram \in DOMAIN m.gl.progInfo
                  THEN m.gl.progInfo[m.gl.curProgram].uniforms ELSE <<>>,
     tex |-> m.gl.boundTex, image |-> ImageOf(m.gl, m.gl.boundTex),
     cull |-> CullState(m.gl),
     arrayBuf |-> m.gl.arrayBuf, elemBuf |-> m.gl.elemBuf]

glDrawElements(m, count) == Emit(m, DrawEvent(m, "glDrawElements", count, <<>>))

\* glDrawArrays(GL_TRIANGLE_STRIP, 0, 4) of the client-side quad
\* [x0, x1] x [0, 1]
glDrawArrays(m, x0, x1) == Emit(m, DrawEvent(m, "glDrawArrays", 4, <<x0, x1>>))

drawFlat(m, texSlot) ==
    IF m.this.mFlatProgram = 0 \/ m.this.mTextures[texSlot] = 0
    THEN m
    ELSE LET m1 == glUseProgram(m, m.this.mFlatProgram)
             m2 == glBindTexture(m1, m.this.mTextures[texSlot])
             m3 == glUniform(m2, m.this.mUFlatTex, 0)
             m4 == bindMeshAttribs(m3, m.this.mVBO, m.this.mEBO)
         IN  glDrawElements(m4, m.this.mIndexCount)

\* drawCurl without the glDisable(GL_CULL_FACE) that ends it
drawCurlKeepsCulling(m, texSlot, foldX, backFace, darken) ==
    IF m.this.mProgram = 0 \/ m.this.mTextures[texSlot] = 0
    THEN m
    ELSE LET m1 == glUseProgram(m, m.this.mProgram)
             m2 == IF backFace
                   THEN glCullFace(glEnableCull(m1), "front")
                   ELSE glCullFace(glEnableCull(m1), "back")
             m3 == glUniform(m2, m.this.mUFoldX, foldX)
             m4 == glUniform(m3, m.this.mURadius, CURL_RADIUS)
             m5 == glUniform(m4, m.this.mUBackFace, IF backFace THEN 1 ELSE 0)
             m6 == glUniform(m5, m.this.mUDarken, darken)
             m7 == glBindTexture(m6, m.this.mTextures[texSlot])
             m8 == glUniform(m7, m.this.mUTex, 0)
             m9 == bindMeshAttribs(m8, m.this.mVBO, m.this.mEBO)
         IN  glDrawElements(m9, m.this.mIndexCount)

drawCurl(m, texSlot, foldX, backFace, darken) ==
    IF m.this.mProgram = 0 \/ m.this.mTextures[texSlot] = 0
    THEN m
    ELSE LET m1 == glUseProgram(m, m.this.mProgram)
             m2 == IF backFace
                   THEN glCullFace(glEnableCull(m1), "front")
                   ELSE glCullFace(glEnableCull(m1), "back")
             m3 == glUniform(m2, m.this.mUFoldX, foldX)
             m4 == glUniform(m3, m.this.mURadius, CURL_RADIUS)
             m5 == glUniform(m4, m.this.mUBackFace, IF backFace THEN 1 ELSE 0)
             m6 == glUniform(m5, m.this.mUDarken, darken)
             m7 == glBindTexture(m6, m.this.mTextures[texSlot])
             m8 == glUniform(m7, m.this.mUTex, 0)
             m9 == bindMeshAttribs(m8, m.this.mVBO, m.this.mEBO)
         IN  glDisableCull(glDrawElements(m9, m.this.mIndexCount))

\* the 2x1 gradients uploaded by the two shadow helpers; id is minus the
\* alpha of the dark texel
RevealGradient == [id |-> -90, w |-> 2, h |-> 1]

FlatGradient == [id |-> -60, w |-> 2, h |-> 1]

\* drawRevealShadow from glBindTexture(GL_TEXTURE_2D, tempTex) on; t is
\* what glGenTexture returned for tempTex
RevealShadowStrip(t, x0, x1) ==
    glBindTexture(
        glDeleteTexture(
            glDrawArrays(
                glBindBuffers(
                    glUniform(
                        glTexImage2D(glBindTexture(t.m, t.ret), RevealGradient),
                        t.m.this.mUFlatTex, 0),
                    0, 0),
                x0, x1),
            t.ret),
        0)

drawRevealShadow(m, foldX) ==
    RevealShadowStrip(
        glGenTexture(glBindTexture(glUseProgram(m, m.this.mFlatProgram), 0)),
        foldX, foldX + REVEAL_SHADOW_W)

\* drawFlatShadow from glBindTexture(GL_TEXTURE_2D, tempTex) on
FlatShadowStrip(t, x0, x1) ==
    glBindTexture(
        glDeleteTexture(
            glDrawArrays(
                glBindBuffers(
                    glUniform(
                        glBindTexture(
                            glUseProgram(
                                glTexImage2D(glBindTexture(t.m, t.ret),
                                             FlatGradient),
                                t.m.this.mFlatProgram),
                            t.ret),
                        t.m.this.mUFlatTex, 0),
                    0, 0),
                x0, x1),
            t.ret),
        0)

drawFlatShadow(m, foldX) ==
    FlatShadowStrip(glGenTexture(m), foldX - FLAT_SHADOW_W, foldX)

-----------------------------------------------------------------------------
(* Public draw calls                                                       *)

\* marks the start of one numbered step of drawForward / drawBackward
BeginPass(m, pass) == Emit(m, [ev |-> "pass", pass |-> pass])

FlatPass(slot) == [kind |-> "flat", slot |-> slot]

CurlPass(slot, foldX, backFace, darken) ==
    [kind |-> "curl", slot |-> slot, foldX |-> foldX,
     backFace |-> backFace, darken |-> darken]

ShadowPass(kind, foldX) == [kind |-> kind, foldX |-> foldX]

\* step 1 of both draw calls: if (mTextures[slot]) drawFlat(slot)
StepFlat(m, slot) ==
    LET m1 == BeginPass(m, FlatPass(slot))
    IN  IF m1.this.mTextures[slot] # 0 THEN drawFlat(m1, slot) ELSE m1

StepRevealShadow(m, foldX) ==
    drawRevealShadow(BeginPass(m, ShadowPass("revealShadow", foldX)), foldX)

StepCurl(m, slot, foldX, backFace, darken) ==
    drawCurl(BeginPass(m, CurlPass(slot, foldX, backFace, darken)),
             slot, foldX, backFace, darken)

StepFlatShadow(m, foldX) ==
    drawFlatShadow(BeginPass(m, ShadowPass("flatShadow", foldX)), foldX)

glClear(m) == Emit(m, GLCall("glClear", <<>>))

\* drawForward with the front face drawn before the back face
drawForwardFrontFirst(m, foldX, foldSlope) ==
    LET m1 == StepFlat(glClear(m), TEX_NEXT)
        m2 == StepRevealShadow(m1, foldX)
        m3 == StepCurl(m2, TEX_CURRENT, foldX, FALSE, DARKEN_FRONT)
        m4 == StepCurl(m3, TEX_CURRENT, foldX, TRUE, DARKEN_BACK)
    IN  StepFlatShadow(m4, foldX)

\* the definition takes foldX alone; foldSlope is the second parameter of
\* the declaration in page_curl_renderer.h and reaches no statement
drawForward(m, foldX, foldSlope) ==
    LET m1 == StepFlat(glClear(m), TEX_NEXT)
        m2 == StepRevealShadow(m1, foldX)
        m3 == StepCurl(m2, TEX_CURRENT, foldX, TRUE, DARKEN_BACK)
        m4 == StepCurl(m3, TEX_CURRENT, foldX, FALSE, DARKEN_FRONT)
    IN  StepFlatShadow(m4, foldX)

drawBackward(m, foldX, foldSlope) ==
    LET m1 == StepFlat(glClear(m), TEX_CURRENT)
        m2 == StepRevealShadow(m1, foldX)
        mirrorFoldX == UNIT - foldX
        m3 == StepCurl(m2, TEX_PREV, mirrorFoldX, TRUE, DARKEN_BACK)
        m4 == StepCurl(m3, TEX_PREV, mirrorFoldX, FALSE, DARKEN_FRONT)
    IN  StepFlatShadow(m4, mirrorFoldX)

-----------------------------------------------------------------------------
(* JNI entry points                                                        *)

\* withBitmap: fn runs only on a bitmap of format RGBA_8888
nativeSetBitmap(m, slot, bitmap) ==
    IF bitmap.format # "RGBA_8888"
    THEN m
    ELSE setTexture(m, slot, [id |-> bitmap.id, w |-> bitmap.w, h |-> bitmap.h])

-----------------------------------------------------------------------------
(* The state machine                                                       *)

Init ==
    /\ this = NewRenderer
    /\ gl = NewContext
    /\ trace = <<>>
    /\ lastOp = [op |-> "create"]
    /\ alive = TRUE
    /\ mesh = NewMesh(MESH_COLS, MESH_ROWS)

\* the variables after an operation that ended in machine m
Becomes(m, op) ==
    /\ this' = m.this
    /\ gl' = m.gl
    /\ trace' = m.trace
    /\ lastOp' = op
    /\ mesh' = mesh

\* the objects of the context that were created and not deleted
LiveObjects(g) ==
    Cardinality(g.shaders) + Cardinality(g.programs)
        + Cardinality(g.buffers) + Cardinality(g.textures)

SurfaceCreated ==
    /\ alive
    /\ LiveObjects(gl) <= MaxLiveObjects
    /\ \E o \in BuildOutcomes :
          Becomes(onSurfaceCreated(Machine, o),
                  [op |-> "surfaceCreated", outcome |-> o])
    /\ UNCHANGED alive

SurfaceChanged ==
    /\ alive
    /\ \E sz \in SurfaceSizes :
          Becomes(onSurfaceChanged(Machine, sz[1], sz[2]),
                  [op |-> "surfaceChanged", width |-> sz[1], height |-> sz[2]])
    /\ UNCHANGED alive

SetBitmap ==
    /\ alive
    /\ \E slot \in SlotArgs, b \in Bitmaps :
          Becomes(nativeSetBitmap(Machine, slot, b),
                  [op |-> "setBitmap", slot |-> slot, bitmap |-> b])
    /\ UNCHANGED alive

DrawForward ==
    /\ alive
    /\ \E foldX \in FoldXs, foldSlope \in FoldSlopes :
          Becomes(drawForward(Machine, foldX, foldSlope),
                  [op |-> "drawForward", foldX |-> foldX,
                   foldSlope |-> foldSlope])
    /\ UNCHANGED alive

DrawBackward ==
    /\ alive
    /\ \E foldX \in FoldXs, foldSlope \in FoldSlopes :
          Becomes(drawBackward(Machine, foldX, foldSlope),
                  [op |-> "drawBackward", foldX |-> foldX,
                   foldSlope |-> foldSlope])
    /\ UNCHANGED alive

Release ==
    /\ alive
    /\ Becomes(release(Machine), [op |-> "release"])
    /\ UNCHANGED alive

\* nativeDestroy: delete runs the destructor, which calls release()
Destroy ==
    /\ alive
    /\ Becomes(release(Machine), [op |-> "destroy"])
    /\ alive' = FALSE

Next ==
    \/ SurfaceCreated
    \/ SurfaceChanged
    \/ SetBitmap
    \/ DrawForward
    \/ DrawBackward
    \/ Release
    \/ Destroy

Spec == Init /\ [][Next]_vars

\* The mesh builder on grids of 1 .. MaxMeshDim columns and rows, next to
\* the renderer building its own mesh in onSurfaceCreated.
MeshDims == 1 .. MaxMeshDim

MeshInit ==
    /\ this = NewRenderer
    /\ gl = NewContext
    /\ trace = <<>>
    /\ lastOp = [op |-> "create"]
    /\ alive = TRUE
    /\ \E cols \in MeshDims, rows \in MeshDims : mesh = NewMesh(cols, rows)

BuildMesh ==
    /\ ~mesh.built
    /\ mesh' = BuiltMesh(mesh.cols, mesh.rows)
    /\ UNCHANGED <<this, gl, trace, lastOp, alive>>

MeshNext ==
    \/ BuildMesh
    \/ SurfaceCreated

MeshSpec == MeshInit /\ [][MeshNext]_vars

-----------------------------------------------------------------------------
(* What the properties below read from a trace                             *)

\* the pass markers of a trace, in order
PassesOf(tr) ==
    LET ms == SelectSeq(tr, LAMBDA e : e.ev = "pass")
    IN  [i \in 1 .. Len(ms) |-> ms[i].pass]

\* the position in tr of its k-th pass marker
MarkerAt(tr, k) ==
    CHOOSE i \in 1 .. Len(tr) :
        /\ tr[i].ev = "pass"
        /\ Cardinality({j \in 1 .. i : tr[j].ev = "pass"}) = k

\* the draw calls issued between the k-th pass marker and the next one
DrawsOfPass(tr, k) ==
    LET n    == Len(PassesOf(tr))
        from == MarkerAt(tr, k)
        to   == IF k < n THEN MarkerAt(tr, k + 1) ELSE Len(tr) + 1
    IN  SelectSeq(SubSeq(tr, from, to - 1), LAMBDA e : e.ev = "draw")

\* every draw call of a trace
DrawsOf(tr) == SelectSeq(tr, LAMBDA e : e.ev = "draw")

\* the GL calls of a trace that are named in `calls`
CallsOf(tr, calls) == SelectSeq(tr, LAMBDA e : e.ev = "gl" /\ e.call \in calls)

\* the image a page slot shows: none while the slot has no texture object
SlotImage(t, g, slot) ==
    IF t.mTextures[slot] = 0 THEN NoImage ELSE ImageOf(g, t.mTextures[slot])

-----------------------------------------------------------------------------
(* Properties                                                              *)

\* what each pass of a draw call may draw: a flat pass the page mesh with
\* the flat program and the slot's texture, a curl pass the page mesh with
\* the curl program, the slot's texture, its uniforms and its culled face,
\* a shadow pass its strip
DrawFitsPass(e, p) ==
    IF p.kind = "flat"
    THEN /\ e.call = "glDrawElements"
         /\ e.program = this.mFlatProgram
         /\ e.tex = this.mTextures[p.slot]
    ELSE IF p.kind = "curl"
    THEN /\ e.call = "glDrawElements"
         /\ e.program = this.mProgram
         /\ e.tex = this.mTextures[p.slot]
         /\ Uniform("curl", e.uniforms, "uFoldX") = p.foldX
         /\ Uniform("curl", e.uniforms, "uRadius") = CURL_RADIUS
         /\ Uniform("curl", e.uniforms, "uBackFace") = (IF p.backFace THEN 1 ELSE 0)
         /\ Uniform("curl", e.uniforms, "uDarken") = p.darken
         /\ e.cull = (IF p.backFace THEN "front" ELSE "back")
    ELSE IF p.kind = "revealShadow"
    THEN /\ e.call = "glDrawArrays"
         /\ e.quad = <<p.foldX, p.foldX + REVEAL_SHADOW_W>>
         /\ e.image = RevealGradient
    ELSE /\ e.call = "glDrawArrays"
         /\ e.quad = <<p.foldX - FLAT_SHADOW_W, p.foldX>>
         /\ e.image = FlatGradient

\* the trace is `passes` in that order, each pass issuing at most one draw
\* call, of its own kind, and no draw call outside a pass
TraceRuns(tr, passes) ==
    /\ PassesOf(tr) = passes
    /\ Len(DrawsOf(SubSeq(tr, 1, MarkerAt(tr, 1) - 1))) = 0
    /\ \A k \in 1 .. Len(passes) :
          /\ Len(DrawsOfPass(tr, k)) <= 1
          /\ \A i \in 1 .. Len(DrawsOfPass(tr, k)) :
                DrawFitsPass(DrawsOfPass(tr, k)[i], passes[k])

\* C1: every drawForward(foldX) runs exactly five passes in this order:
\* flat NEXT, reveal shadow, curl CURRENT back face darken 0.15, curl
\* CURRENT front face darken 0.35, flat shadow; the draw calls it issues
\* come in that order, each inside its own pass.
C1_ForwardPassOrder ==
    lastOp.op = "drawForward" =>
        TraceRuns(trace,
            << FlatPass(TEX_NEXT),
               ShadowPass("revealShadow", lastOp.foldX),
               CurlPass(TEX_CURRENT, lastOp.foldX, TRUE, DARKEN_BACK),
               CurlPass(TEX_CURRENT, lastOp.foldX, FALSE, DARKEN_FRONT),
               ShadowPass("flatShadow", lastOp.foldX) >>)

\* a drawForward in which all five passes issued their draw call
C1_Witness ==
    /\ lastOp.op = "drawForward"
    /\ Len(DrawsOf(trace)) = 5
    /\ \A k \in 1 .. 5 : Len(DrawsOfPass(trace, k)) = 1

\* the fold line of the specification: foldX + foldSlope * (y - 0.5)
SlopedFoldLineX(foldX, foldSlope, y) ==
    foldX + (foldSlope * (y - UNIT \div 2)) \div UNIT

\* the y of mesh row r
RowY(r) == MeshVertex(MESH_COLS, MESH_ROWS, r, 0).y

\* every curl draw call of the trace compares the vertices of every mesh
\* row against the fold line through foldX with slope foldSlope
CurlDrawsFoldAlong(tr, foldX, foldSlope) ==
    \A k \in {3, 4} :
        \A i \in 1 .. Len(DrawsOfPass(tr, k)) :
            \A r \in 0 .. MESH_ROWS :
                CurlFoldLineX(DrawsOfPass(tr, k)[i].uniforms, RowY(r))
                    = SlopedFoldLineX(foldX, foldSlope, RowY(r))

\* C2: every drawBackward(foldX, foldSlope) runs the five passes of
\* drawForward in the same order, CURRENT flat and PREVIOUS curling, and
\* both curl passes work with mirrorFoldX = 1 - foldX and
\* mirrorSlope = -foldSlope.
C2_BackwardMirrorsFoldAndSlope ==
    lastOp.op = "drawBackward" =>
        LET mirrorFoldX == UNIT - lastOp.foldX
            mirrorSlope == -lastOp.foldSlope
        IN  /\ TraceRuns(trace,
                  << FlatPass(TEX_CURRENT),
                     ShadowPass("revealShadow", lastOp.foldX),
                     CurlPass(TEX_PREV, mirrorFoldX, TRUE, DARKEN_BACK),
                     CurlPass(TEX_PREV, mirrorFoldX, FALSE, DARKEN_FRONT),
                     ShadowPass("flatShadow", mirrorFoldX) >>)
            /\ CurlDrawsFoldAlong(trace, mirrorFoldX, mirrorSlope)

\* the GPU handles of a renderer
Handles(t) ==
    << t.mProgram, t.mFlatProgram, t.mVBO, t.mEBO,
       t.mTextures[TEX_CURRENT], t.mTextures[TEX_NEXT], t.mTextures[TEX_PREV],
       t.mRevealShadowTex, t.mFlatShadowTex >>

\* no handle of renderer t names a live object of context g
HandlesFreed(t, g) ==
    /\ {t.mProgram, t.mFlatProgram} \cap g.programs = {}
    /\ {t.mVBO, t.mEBO} \cap g.buffers = {}
    /\ ({t.mTextures[i] : i \in Slots}
           \cup {t.mRevealShadowTex, t.mFlatShadowTex}) \cap g.textures = {}

\* C3: a step that is release() frees the object of every handle the
\* renderer held and leaves every handle 0, as in a fresh instance; and
\* release() run again from there changes neither the renderer nor the
\* context and issues no GL call.
C3_ReleaseResetsAndIsIdempotent ==
    [][lastOp'.op = "release" =>
          /\ HandlesFreed(this, gl')
          /\ Handles(this') = Handles(NewRenderer)
          /\ release([this |-> this', gl |-> gl', trace |-> <<>>])
                = [this |-> this', gl |-> gl', trace |-> <<>>]]_vars

\* a release() that deleted both programs, both buffers and three textures
C3_Witness ==
    /\ lastOp.op = "release"
    /\ Len(CallsOf(trace, {"glDeleteProgram"})) = 2
    /\ Len(CallsOf(trace, {"glDeleteBuffers"})) = 2
    /\ Len(CallsOf(trace, {"glDeleteTextures"})) = 3

\* C4: after release() no shader, program, buffer or texture that the
\* renderer created is still allocated.
C4_NothingOutlivesRelease ==
    lastOp.op = "release" => LiveObjects(gl) = 0

Draws == {"drawForward", "drawBackward"}

CurlBuilt(o) == o.cv /\ o.cf /\ o.cl

FlatBuilt(o) == o.fv /\ o.ff /\ o.fl

\* C5: a program whose compile or link failed has handle 0, and, after an
\* onSurfaceCreated, a draw call issues no draw in the passes of a program
\* with handle 0 (flat pass and both shadow passes for the flat program,
\* both curl passes for the curl program) and creates no GL object there.
C5_PassesOfFailedProgramAreNoOps ==
    /\ lastOp.op = "surfaceCreated" =>
          /\ ~CurlBuilt(lastOp.outcome) => this.mProgram = 0
          /\ ~FlatBuilt(lastOp.outcome) => this.mFlatProgram = 0
    /\ (lastOp.op \in Draws /\ this.mVBO # 0) =>
          /\ this.mFlatProgram = 0 =>
                /\ \A k \in {1, 2, 5} : Len(DrawsOfPass(trace, k)) = 0
                /\ Len(CallsOf(trace, {"glGenTextures", "glGenBuffers",
                                       "glCreateShader", "glCreateProgram"})) = 0
          /\ this.mProgram = 0 =>
                \A k \in {3, 4} : Len(DrawsOfPass(trace, k)) = 0

\* C6: in a draw call, a flat or curl pass on a slot that holds no image
\* (no setTexture on it since the last onSurfaceCreated) issues no draw.
C6_PassOnUnsetSlotIsNoOp ==
    lastOp.op \in Draws =>
        \A k \in {1, 3, 4} :
            SlotImage(this, gl, PassesOf(trace)[k].slot) = NoImage
                => Len(DrawsOfPass(trace, k)) = 0

\* C7: a step that is setTexture(slot, ...) through nativeSetBitmap leaves
\* the renderer and the images of all slots but `slot` as they were; with a
\* slot outside 0..2 it leaves the context as it was and issues no GL call;
\* with a slot in 0..2 that has a texture object, that slot then shows the
\* uploaded image.
C7_SetTextureTouchesOnlyItsSlot ==
    [][lastOp'.op = "setBitmap" =>
          /\ this' = this
          /\ \A i \in Slots \ {lastOp'.slot} :
                SlotImage(this', gl', i) = SlotImage(this, gl, i)
          /\ lastOp'.slot \notin Slots => (gl' = gl /\ trace' = <<>>)
          /\ ( /\ lastOp'.slot \in Slots
               /\ lastOp'.bitmap.format = "RGBA_8888"
               /\ this.mTextures[lastOp'.slot] # 0 ) =>
                SlotImage(this', gl', lastOp'.slot).id = lastOp'.bitmap.id]_vars

\* a setTexture that filled CURRENT while NEXT already held an image
C7_Witness ==
    /\ lastOp.op = "setBitmap"
    /\ lastOp.slot = TEX_CURRENT
    /\ lastOp.bitmap.format = "RGBA_8888"
    /\ SlotImage(this, gl, TEX_CURRENT).id = lastOp.bitmap.id
    /\ SlotImage(this, gl, TEX_NEXT) # NoImage
    /\ SlotImage(this, gl, TEX_PREV) = NoImage

\* C8: onSurfaceCreated creates the two shadow gradient textures, and no
\* drawForward or drawBackward creates, uploads or deletes a texture.
C8_ShadowTexturesMadeOnce ==
    /\ lastOp.op = "surfaceCreated" =>
          (this.mRevealShadowTex # 0 /\ this.mFlatShadowTex # 0)
    /\ lastOp.op \in Draws =>
          Len(CallsOf(trace, {"glGenTextures", "glTexImage2D",
                              "glDeleteTextures"})) = 0

\* C9: in drawForward(foldX, foldSlope) the curl transform compares the
\* vertex at height y against foldX + foldSlope * (y - 0.5), so with a
\* non-zero foldSlope two mesh rows have different fold-line x values.
C9_FoldLineFollowsSlope ==
    lastOp.op = "drawForward" =>
        /\ CurlDrawsFoldAlong(trace, lastOp.foldX, lastOp.foldSlope)
        /\ lastOp.foldSlope # 0 =>
              \A k \in {3, 4} :
                  \A i \in 1 .. Len(DrawsOfPass(trace, k)) :
                      \E r1, r2 \in 0 .. MESH_ROWS :
                          CurlFoldLineX(DrawsOfPass(trace, k)[i].uniforms, RowY(r1))
                            # CurlFoldLineX(DrawsOfPass(trace, k)[i].uniforms, RowY(r2))

\* what drawFlat of the slot would issue from the present state
FlatDrawOf(slot) == DrawsOf(drawFlat(Machine, slot).trace)

\* draw call e sends the same mesh and the same texture as draw call f
SameMeshAndTexture(e, f) ==
    /\ e.call = f.call /\ e.count = f.count
    /\ e.arrayBuf = f.arrayBuf /\ e.elemBuf = f.elemBuf
    /\ e.tex = f.tex /\ e.image = f.image

\* C10: in drawForward(foldX, 0) with foldX >= 1, both curl passes leave
\* every vertex of the mesh where the flat shader puts it: dx <= 0, the
\* position, depth 0 and texture coordinate are those of the flat shader,
\* the shadow factor is 0 and the colour is not darkened; and they send
\* the mesh and texture that drawFlat of CURRENT sends.
C10_NoCurlAtFoldXOne ==
    (lastOp.op = "drawForward" /\ lastOp.foldX >= UNIT /\ lastOp.foldSlope = 0) =>
        \A k \in {3, 4} :
            \A i \in 1 .. Len(DrawsOfPass(trace, k)) :
                LET e == DrawsOfPass(trace, k)[i]
                IN  /\ \A n \in DOMAIN PageVertices :
                          LET vtx == PageVertices[n]
                              out == CurlVert(vtx, e.uniforms)
                          IN  /\ CurlDx(vtx, e.uniforms) <= 0
                              /\ out = FlatVert(vtx)
                              /\ out.z = 0 /\ out.vShadow = 0
                              /\ out.u = vtx.u /\ out.v = vtx.v
                              /\ CurlFragFactor(out.vShadow) = FlatFragFactor
                    /\ \A j \in 1 .. Len(FlatDrawOf(TEX_CURRENT)) :
                          SameMeshAndTexture(e, FlatDrawOf(TEX_CURRENT)[j])

\* a drawForward(1.0, 0.0) whose two curl passes drew an uploaded CURRENT
\* page, in a state where drawFlat draws too
C10_Witness ==
    /\ lastOp.op = "drawForward"
    /\ lastOp.foldX = UNIT /\ lastOp.foldSlope = 0
    /\ SlotImage(this, gl, TEX_CURRENT) # NoImage
    /\ \A k \in {3, 4} : Len(DrawsOfPass(trace, k)) = 1
    /\ Len(FlatDrawOf(TEX_CURRENT)) = 1

-----------------------------------------------------------------------------
\* the vertex the claim puts at row r, column c of a cols x rows grid
GridVertex(cols, rows, r, c) ==
    [x |-> (c * UNIT) \div cols, y |-> (r * UNIT) \div rows,
     u |-> (c * UNIT) \div cols, v |-> (r * UNIT) \div rows]

\* verts holds (cols+1)*(rows+1) vertices, row r column c at r*(cols+1)+c
RowMajorVertices(ms) ==
    /\ Len(ms.verts) = (ms.cols + 1) * (ms.rows + 1)
    /\ \A r \in 0 .. ms.rows, c \in 0 .. ms.cols :
          ms.verts[r * (ms.cols + 1) + c + 1]
              = GridVertex(ms.cols, ms.rows, r, c)

\* indices holds cols*rows*6 entries: for each cell the triangles
\* (tl, bl, tr) and (tr, bl, br) of its four corners
TwoTrianglesPerCell(ms) ==
    /\ Len(ms.indices) = ms.cols * ms.rows * 6
    /\ \A r \in 0 .. ms.rows - 1, c \in 0 .. ms.cols - 1 :
          LET at == (r * ms.cols + c) * 6
              tl == r * (ms.cols + 1) + c
              bl == (r + 1) * (ms.cols + 1) + c
          IN  SubSeq(ms.indices, at + 1, at + 6)
                  = <<tl, bl, tl + 1, tl + 1, bl, bl + 1>>

\* C11: for any cols >= 1 and rows >= 1 the mesh builder produces exactly
\* (cols+1)*(rows+1) vertices laid out row-major and exactly cols*rows*6
\* indices, two triangles per grid cell, and after surfaceCreated
\* mIndexCount is MESH_COLS * MESH_ROWS * 6.
C11_MeshCounts ==
    /\ mesh.built =>
          /\ mesh.cols >= 1 /\ mesh.rows >= 1
          /\ RowMajorVertices(mesh)
          /\ TwoTrianglesPerCell(mesh)
          /\ mesh.indexCount = mesh.cols * mesh.rows * 6
    /\ lastOp.op = "surfaceCreated" =>
          /\ this.mIndexCount = MESH_COLS * MESH_ROWS * 6
          /\ gl.bufData[this.mVBO] = (MESH_COLS + 1) * (MESH_ROWS + 1)
          /\ gl.bufData[this.mEBO] = MESH_COLS * MESH_ROWS * 6

\* C11 witness: a 3 x 2 grid has been built (12 vertices, 36 indices) and
\* the renderer has built its own mesh in onSurfaceCreated
C11_Witness ==
    /\ mesh.built /\ mesh.cols = 3 /\ mesh.rows = 2
    /\ Len(mesh.verts) = 12 /\ mesh.indexCount = 36
    /\ lastOp.op = "surfaceCreated"
    /\ this.mIndexCount = 12288

-----------------------------------------------------------------------------
\* the curl angle the vertex shader of draw call e computes for vtx
ThetaOf(e, vtx) ==
    CurlTheta(CurlDx(vtx, e.uniforms), Uniform("curl", e.uniforms, "uRadius"))

\* the draw calls of the two curl passes of a drawForward
CurlDraws(tr) == DrawsOfPass(tr, 3) \o DrawsOfPass(tr, 4)

\* C12: with drawForward(0.0, 0.0) the CURRENT page is fully curled away:
\* for every mesh vertex right of the fold (dx > 0) the curl angle
\* theta = min(dx / radius, pi) reaches pi.
C12_FullyCurledAtFoldXZero ==
    (lastOp.op = "drawForward" /\ lastOp.foldX = 0 /\ lastOp.foldSlope = 0) =>
        \A i \in 1 .. Len(CurlDraws(trace)) :
            \A n \in DOMAIN PageVertices :
                CurlDx(PageVertices[n], CurlDraws(trace)[i].uniforms) > 0
                    => ThetaOf(CurlDraws(trace)[i], PageVertices[n]) = PI

\* C12 as amended: with drawForward(0.0, 0.0) every mesh vertex at least
\* pi * radius right of the fold (dx >= pi * CURL_RADIUS) has theta = pi,
\* and every vertex with 0 < dx < pi * CURL_RADIUS has
\* theta = dx / radius, above 0 and below pi.
C12_CurledBeyondHalfTurn ==
    (lastOp.op = "drawForward" /\ lastOp.foldX = 0 /\ lastOp.foldSlope = 0) =>
        \A i \in 1 .. Len(CurlDraws(trace)) :
            \A n \in DOMAIN PageVertices :
                LET e == CurlDraws(trace)[i]
                    dx == PageVertices[n].x
                IN  /\ CurlDx(PageVertices[n], e.uniforms) = dx
                    /\ dx * MILLI >= PI * CURL_RADIUS
                          => ThetaOf(e, PageVertices[n]) = PI
                    /\ (dx > 0 /\ dx * MILLI < PI * CURL_RADIUS)
                          => /\ ThetaOf(e, PageVertices[n])
                                    = (dx * MILLI) \div CURL_RADIUS
                             /\ ThetaOf(e, PageVertices[n]) > 0
                             /\ ThetaOf(e, PageVertices[n]) < PI

\* C12 witness: a drawForward(0.0, 0.0) whose two curl passes drew, with a
\* vertex right of the fold at theta = pi (the right edge) and one right
\* of the fold below pi (the first column after the fold)
C12_Witness ==
    /\ lastOp.op = "drawForward" /\ lastOp.foldX = 0 /\ lastOp.foldSlope = 0
    /\ Len(CurlDraws(trace)) = 2
    /\ \A i \in 1 .. Len(CurlDraws(trace)) :
          /\ CurlDx(PageVertices[MESH_COLS + 1], CurlDraws(trace)[i].uniforms) > 0
          /\ ThetaOf(CurlDraws(trace)[i], PageVertices[MESH_COLS + 1]) = PI
          /\ CurlDx(PageVertices[2], CurlDraws(trace)[i].uniforms) > 0
          /\ ThetaOf(CurlDraws(trace)[i], PageVertices[2]) < PI

-----------------------------------------------------------------------------
\* the events of the k-th pass of a trace, from its marker to the next one
EventsOfPass(tr, k) ==
    SubSeq(tr, MarkerAt(tr, k),
           IF k < Len(PassesOf(tr)) THEN MarkerAt(tr, k + 1) - 1 ELSE Len(tr))

\* the last event of a sequence of events is glDisable(GL_CULL_FACE)
EndsWithCullingOff(evs) ==
    /\ evs[Len(evs)].ev = "gl"
    /\ evs[Len(evs)].call = "glDisable(GL_CULL_FACE)"

\* draw calls e and f send the same mesh and texture to the curl program
\* with the same fold position and radius
SameSheet(e, f) ==
    /\ SameMeshAndTexture(e, f)
    /\ e.program = f.program
    /\ Uniform("curl", e.uniforms, "uFoldX") = Uniform("curl", f.uniforms, "uFoldX")
    /\ Uniform("curl", e.uniforms, "uRadius") = Uniform("curl", f.uniforms, "uRadius")

\* C13: every curl pass draws with face culling enabled, culling the front
\* face when it renders the back face and the back face when it renders
\* the front face, on the same mesh, texture, fold position and radius for
\* both faces, and ends by disabling culling; every flat-page pass and
\* every shadow pass draws with culling disabled, and culling is disabled
\* after every operation.
C13_CullingSeparatesFaces ==
    /\ ~gl.cullEnabled
    /\ lastOp.op \in Draws =>
          /\ \A k \in 1 .. Len(PassesOf(trace)) :
                \A i \in 1 .. Len(DrawsOfPass(trace, k)) :
                    IF PassesOf(trace)[k].kind = "curl"
                    THEN /\ DrawsOfPass(trace, k)[i].cull
                              = (IF PassesOf(trace)[k].backFace
                                 THEN "front" ELSE "back")
                         /\ EndsWithCullingOff(EventsOfPass(trace, k))
                    ELSE DrawsOfPass(trace, k)[i].cull = "off"
          /\ \A i \in 1 .. Len(DrawsOfPass(trace, 3)) :
                \A j \in 1 .. Len(DrawsOfPass(trace, 4)) :
                    SameSheet(DrawsOfPass(trace, 3)[i], DrawsOfPass(trace, 4)[j])

\* C13 witness: a draw call all of whose five passes drew, the back face
\* with the front culled, the front face with the back culled, and the
\* flat page and both shadows with culling off
C13_Witness ==
    /\ lastOp.op \in Draws
    /\ Len(PassesOf(trace)) = 5
    /\ \A k \in 1 .. 5 : Len(DrawsOfPass(trace, k)) = 1
    /\ DrawsOfPass(trace, 1)[1].cull = "off"
    /\ DrawsOfPass(trace, 2)[1].cull = "off"
    /\ DrawsOfPass(trace, 3)[1].cull = "front"
    /\ DrawsOfPass(trace, 4)[1].cull = "back"
    /\ DrawsOfPass(trace, 5)[1].cull = "off"
    /\ ~gl.cullEnabled

====
